---------------------------- MODULE Spec2Model ----------------------------
(***************************************************************************)
(* Model of the bash-bookmarks HTTP gateways (src/bookmarks-server.py and  *)
(* src/server.py): request dispatch, parameter parsing, the invocation of *)
(* the external `bookmarks` tool and the rendering of its output.          *)
(*                                                                         *)
(* Text is a sequence of atoms.  Every text the code parses (request path, *)
(* request body, the tool's stdout and stderr) has one character per atom; *)
(* literal markup the code only emits (page template, list markup, fixed   *)
(* messages) is kept as one atom per literal.                              *)
(***************************************************************************)
EXTENDS Integers, Sequences, FiniteSets, TLC

(***************************************************************************)
(* Bounds of the model.                                                    *)
(***************************************************************************)
\* parameters in a query string or a form body
MaxParams == 2
\* characters of the tool's standard error
MaxStderrLen == 3
\* records in the tool's `suggest` output
MaxRecords == 2
\* result IDs in one GetResultMetas call
MaxIds == 2

(***************************************************************************)
(* Python values: str, list, dict (insertion-ordered, unique keys).        *)
(***************************************************************************)
PyStr(s) == [t |-> "str", v |-> s]
PyList(l) == [t |-> "list", v |-> l]
PyDict(d) == [t |-> "dict", v |-> d]
PyNone == [t |-> "none", v |-> <<>>]

\* sequence helpers
Last(s) == s[Len(s)]
Front(s) == SubSeq(s, 1, Len(s) - 1)
RECURSIVE Concat(_)
Concat(ss) == IF ss = <<>> THEN <<>> ELSE Head(ss) \o Concat(Tail(ss))

\* str.startswith(prefix)
startswith(s, prefix) ==
    /\ Len(s) >= Len(prefix)
    /\ SubSeq(s, 1, Len(prefix)) = prefix

\* `c in s` for a one-character c
contains(s, c) == \E i \in 1..Len(s) : s[i] = c

RECURSIVE split_acc(_, _, _, _)
split_acc(s, sep, cur, acc) ==
    IF s = <<>> THEN Append(acc, cur)
    ELSE IF Head(s) = sep THEN split_acc(Tail(s), sep, <<>>, Append(acc, cur))
    ELSE split_acc(Tail(s), sep, Append(cur, Head(s)), acc)

\* str.split(sep) for a one-character separator: ''.split('&') == ['']
split(s, sep) == split_acc(s, sep, <<>>, <<>>)

\* sep.join(parts)
RECURSIVE join(_, _)
join(sep, parts) ==
    IF parts = <<>> THEN <<>>
    ELSE IF Len(parts) = 1 THEN parts[1]
    ELSE parts[1] \o sep \o join(sep, Tail(parts))

\* dict.get(key, default) on the pair list of a dict
RECURSIVE pairs_get(_, _, _)
pairs_get(d, k, default) ==
    IF d = <<>> THEN default
    ELSE IF d[1][1] = k THEN d[1][2]
    ELSE pairs_get(Tail(d), k, default)

pairs_has(d, k) == \E i \in 1..Len(d) : d[i][1] = k

\* d[k] = v: a key already present keeps its place and takes the new value
pairs_set(d, k, v) ==
    IF pairs_has(d, k)
    THEN [i \in 1..Len(d) |-> IF d[i][1] = k THEN <<k, v>> ELSE d[i]]
    ELSE Append(d, <<k, v>>)

RECURSIVE pairs_from(_, _)
pairs_from(list, acc) ==
    IF list = <<>> THEN acc
    ELSE pairs_from(Tail(list), pairs_set(acc, list[1][1], PyStr(list[1][2])))

\* [p.split('=') for p in parts]
param_items(parts) == [i \in 1..Len(parts) |-> split(parts[i], "=")]

\* dict(items): every item must have exactly two elements, otherwise ValueError
dict_of_items(items) ==
    IF \E i \in 1..Len(items) : Len(items[i]) # 2
    THEN [raised |-> "ValueError", value |-> PyNone]
    ELSE [raised |-> "none", value |-> PyDict(pairs_from(items, <<>>))]

\* dict([p.split('=') for p in text.split('&')])
dict_of_params(text) == dict_of_items(param_items(split(text, "&")))

(***************************************************************************)
(* json.dumps / json.loads on the JSON subset the gateways exchange with   *)
(* the tool and with clients: strings, arrays and objects.                 *)
(***************************************************************************)
QUOTE == "\""
BACKSLASH == "\\"

\* mutant: the characters written as they are, nothing escaped
json_escape_raw(s) == s

\* a string's characters as json.dumps writes them: '"' and '\' are escaped
RECURSIVE json_escape(_)
json_escape(s) ==
    IF s = <<>> THEN <<>>
    ELSE IF Head(s) \in {QUOTE, BACKSLASH}
         THEN <<BACKSLASH, Head(s)>> \o json_escape(Tail(s))
         ELSE <<Head(s)>> \o json_escape(Tail(s))

\* json.dumps(v) with the default separators ', ' and ': '
RECURSIVE json_dumps(_)
json_dumps(v) ==
    CASE v.t = "str" -> <<QUOTE>> \o json_escape(v.v) \o <<QUOTE>>
      [] v.t = "list" ->
            <<"[">> \o join(<<",", " ">>, [i \in 1..Len(v.v) |-> json_dumps(v.v[i])])
                    \o <<"]">>
      [] v.t = "dict" ->
            <<"{">> \o join(<<",", " ">>,
                            [i \in 1..Len(v.v) |->
                                <<QUOTE>> \o json_escape(v.v[i][1]) \o <<QUOTE, ":", " ">>
                                          \o json_dumps(v.v[i][2])])
                    \o <<"}">>
      [] OTHER -> <<"n", "u", "l", "l">>

JsonFail == [ok |-> FALSE, val |-> PyNone, next |-> 0]

\* index of the first non-whitespace character at or after i
RECURSIVE skip_ws(_, _)
skip_ws(s, i) ==
    IF i <= Len(s) /\ s[i] \in {" ", "\n", "\t", "\r"} THEN skip_ws(s, i + 1) ELSE i

\* scans a string body from i (just after the opening quote) to its closing quote
RECURSIVE scan_string(_, _, _)
scan_string(s, i, acc) ==
    IF i > Len(s) THEN JsonFail
    ELSE IF s[i] = QUOTE THEN [ok |-> TRUE, val |-> PyStr(acc), next |-> i + 1]
    ELSE IF s[i] = BACKSLASH
         THEN IF i + 1 <= Len(s) /\ s[i + 1] \in {QUOTE, BACKSLASH, "/"}
              THEN scan_string(s, i + 2, Append(acc, s[i + 1]))
              ELSE JsonFail
    ELSE IF s[i] \in {"\n", "\t", "\r"} THEN JsonFail
    ELSE scan_string(s, i + 1, Append(acc, s[i]))

RECURSIVE parse_value(_, _)
RECURSIVE parse_elems(_, _, _)
RECURSIVE parse_members(_, _, _)

\* the elements of an array from i (past '[' and whitespace, not at ']')
parse_elems(s, i, acc) ==
    LET e == parse_value(s, i)
        j == skip_ws(s, e.next)
    IN  IF ~e.ok \/ j > Len(s) THEN JsonFail
        ELSE IF s[j] = "]"
             THEN [ok |-> TRUE, val |-> PyList(Append(acc, e.val)), next |-> j + 1]
        ELSE IF s[j] = ","
             THEN parse_elems(s, skip_ws(s, j + 1), Append(acc, e.val))
        ELSE JsonFail

\* the members of an object from i (past '{' and whitespace, not at '}');
\* a repeated key keeps its first place and takes the last value
parse_members(s, i, acc) ==
    IF i > Len(s) \/ s[i] # QUOTE THEN JsonFail
    ELSE LET k == scan_string(s, i + 1, <<>>)
             c == skip_ws(s, k.next)
         IN  IF ~k.ok \/ c > Len(s) \/ s[c] # ":" THEN JsonFail
             ELSE LET e == parse_value(s, skip_ws(s, c + 1))
                      j == skip_ws(s, e.next)
                  IN  IF ~e.ok \/ j > Len(s) THEN JsonFail
                      ELSE IF s[j] = "}"
                           THEN [ok |-> TRUE,
                                 val |-> PyDict(pairs_set(acc, k.val.v, e.val)),
                                 next |-> j + 1]
                      ELSE IF s[j] = ","
                           THEN parse_members(s, skip_ws(s, j + 1),
                                              pairs_set(acc, k.val.v, e.val))
                      ELSE JsonFail

parse_value(s, i) ==
    IF i > Len(s) THEN JsonFail
    ELSE IF s[i] = QUOTE THEN scan_string(s, i + 1, <<>>)
    ELSE IF s[i] = "["
         THEN LET j == skip_ws(s, i + 1)
              IN  IF j <= Len(s) /\ s[j] = "]"
                  THEN [ok |-> TRUE, val |-> PyList(<<>>), next |-> j + 1]
                  ELSE parse_elems(s, j, <<>>)
    ELSE IF s[i] = "{"
         THEN LET j == skip_ws(s, i + 1)
              IN  IF j <= Len(s) /\ s[j] = "}"
                  THEN [ok |-> TRUE, val |-> PyDict(<<>>), next |-> j + 1]
                  ELSE parse_members(s, j, <<>>)
    ELSE JsonFail

\* the whole text must be one value, whitespace around it allowed
json_document(r, text) ==
    IF r.ok /\ skip_ws(text, r.next) = Len(text) + 1
    THEN [raised |-> "none", value |-> r.val]
    ELSE [raised |-> "JSONDecodeError", value |-> PyNone]

\* json.loads(text): the parsed value, or JSONDecodeError
json_loads(text) == json_document(parse_value(text, skip_ws(text, 1)), text)

(***************************************************************************)
(* Literals of the source.  Parsed text: one character per atom.           *)
(***************************************************************************)
SEARCH == <<"/", "s", "e", "a", "r", "c", "h">>
FORM == <<"/", "f", "o", "r", "m">>
ADD == <<"/", "a", "d", "d">>
ROOT == <<"/">>
EMPTY == <<>>
Q == <<"q">>
FORMAT == <<"f", "o", "r", "m", "a", "t">>
URL == <<"u", "r", "l">>
TITLE == <<"t", "i", "t", "l", "e">>
CATEGORY == <<"c", "a", "t", "e", "g", "o", "r", "y">>
JSON == <<"j", "s", "o", "n">>
TEXT == <<"t", "e", "x", "t">>
HTML == <<"h", "t", "m", "l">>
SUGGEST == <<"s", "u", "g", "g", "e", "s", "t">>
APPLICATION_JSON == <<"application/json">>
NEWLINE == "\n"

\* the two server files
Variants == {"bookmarks-server.py", "server.py"}

\* os.path.dirname(os.path.realpath(__file__)): where the server file is installed
command_dir == <<"/", "a", "p", "p">>

bookmarks_cmd == command_dir \o <<"/", "b", "o", "o", "k", "m", "a", "r", "k", "s">>

\* PAGE_TEMPLATE.format(x): the text before and after the `{}` placeholder;
\* bookmarks-server.py adds the favicon link to the head
PAGE_TEMPLATE_format(variant, x) ==
    (IF variant = "bookmarks-server.py"
     THEN <<"\n<!DOCTYPE html>\n<html lang=\"en\">\n  <head>\n    <meta charset=\"utf-8\" />\n    <meta name=\"viewport\" content=\"width=device-width, initial-scale=1\" />\n    <title>Bookmarks</title>\n    <link rel=\"stylesheet\" href=\"https://cdn.jsdelivr.net/npm/@picocss/pico@1/css/pico.min.css\" />\n    <link rel=\"icon\" type=\"image/png\" href=\"/favicon.png\">\n  </head>\n  <body>\n    <main class=\"container\">\n    ">>
     ELSE <<"\n<!DOCTYPE html>\n<html lang=\"en\">\n  <head>\n    <meta charset=\"utf-8\" />\n    <meta name=\"viewport\" content=\"width=device-width, initial-scale=1\" />\n    <title>Bookmarks</title>\n    <link rel=\"stylesheet\" href=\"https://cdn.jsdelivr.net/npm/@picocss/pico@1/css/pico.min.css\" />\n  </head>\n  <body>\n    <main class=\"container\">\n    ">>)
    \o x \o <<"\n    </main>\n  </body>\n</html>\n">>

(***************************************************************************)
(* The file system the static-asset branch looks at.  A node is the        *)
(* sequence of its path segments from the root.                            *)
(***************************************************************************)
Files ==
    { <<<<"a", "p", "p">>, <<"b", "o", "o", "k", "m", "a", "r", "k", "s", "-", "s", "e", "r", "v", "e", "r", ".", "p", "y">>>>,
      <<<<"a", "p", "p">>, <<"b", "o", "o", "k", "m", "a", "r", "k", "s">>>>,
      <<<<"a", "p", "p">>, <<"d", "a", "t", "a", ".", "j", "s", "o", "n">>>>,
      <<<<"a", "p", "p">>, <<"s", "t", "a", "t", "i", "c">>, <<"i", "n", "d", "e", "x", ".", "h", "t", "m", "l">>>>,
      <<<<"a", "p", "p">>, <<"s", "t", "a", "t", "i", "c">>, <<"a", "p", "p", ".", "j", "s">>>>,
      <<<<"a", "p", "p">>, <<"s", "t", "a", "t", "i", "c">>, <<"f", "a", "v", "i", "c", "o", "n", ".", "p", "n", "g">>>>,
      <<<<"a", "p", "p">>, <<"s", "t", "a", "t", "i", "c">>, <<"n", "o", "t", "e", "s", ".", "t", "x", "t">>>>,
      <<<<"a", "p", "p">>, <<"s", "t", "a", "t", "i", "c">>, <<"R", "E", "A", "D", "M", "E">>>>,
      <<<<"a", "p", "p">>, <<"s", "t", "a", "t", "i", "c">>, <<"c", "s", "s">>, <<"s", "t", "y", "l", "e", ".", "c", "s", "s">>>> }

Dirs == UNION { { SubSeq(f, 1, n) : n \in 0..(Len(f) - 1) } : f \in Files }

\* what open(path).read() returns for a regular file
file_content(node) == <<"<contents of ">> \o join(<<"/">>, node) \o <<">">>

\* path resolution as the kernel does it: every segment but the last must be
\* a directory, `..` steps to the parent, empty segments and `.` stay
RECURSIVE walk(_, _)
walk(cur, segs) ==
    IF segs = <<>> THEN [ok |-> TRUE, node |-> cur]
    ELSE IF cur \notin Dirs THEN [ok |-> FALSE, node |-> <<>>]
    ELSE IF Head(segs) \in {<<>>, <<".">>} THEN walk(cur, Tail(segs))
    ELSE IF Head(segs) = <<".", ".">>
         THEN walk(IF cur = <<>> THEN cur ELSE Front(cur), Tail(segs))
    ELSE IF Append(cur, Head(segs)) \in Files \cup Dirs
         THEN walk(Append(cur, Head(segs)), Tail(segs))
    ELSE [ok |-> FALSE, node |-> <<>>]

resolve(path) == walk(<<>>, split(path, "/"))

\* os.path.exists(path), given where the path leads
exists(found) == found.ok

\* os.path.isfile(path), given where the path leads
isfile(found) == found.ok /\ found.node \in Files

\* highest index of character c in s, 0 when absent (str.rfind, 1-based)
rfind(s, c) ==
    IF contains(s, c) THEN CHOOSE i \in 1..Len(s) :
                               s[i] = c /\ \A j \in (i + 1)..Len(s) : s[j] # c
    ELSE 0

\* the extension starts at the last dot of the last segment, unless only dots
\* precede it there
extension_from(path, sep, dot) ==
    IF dot > sep /\ \E k \in (sep + 1)..(dot - 1) : path[k] # "."
    THEN SubSeq(path, dot, Len(path))
    ELSE <<>>

\* os.path.splitext(path)[1]
splitext(path) == extension_from(path, rfind(path, "/"), rfind(path, "."))

(***************************************************************************)
(* Responses.  A response is what one send_response .. end_headers ..      *)
(* wfile.write sequence puts on the wire.                                  *)
(***************************************************************************)
Response(status, headers, body) ==
    [status |-> status, headers |-> headers, wrote |-> TRUE, body |-> body]

\* what a handler run leaves behind
Outcome(responses, calls, raised, opened, read) ==
    [responses |-> responses, calls |-> calls, raised |-> raised,
     opened |-> opened, read |-> read]

NoOutcome == Outcome(<<>>, <<>>, "none", <<>>, FALSE)

\* mutant: the Max-Age header left out
send_cors_headers_short ==
    << <<"Access-Control-Allow-Origin", "*">>,
       <<"Access-Control-Allow-Methods", "POST, GET, OPTIONS, PUT, DELETE">>,
       <<"Access-Control-Allow-Credentials", "true">>,
       <<"Access-Control-Allow-Headers", "Content-Type, Authorization, X-Requested-With">> >>

send_cors_headers ==
    << <<"Access-Control-Allow-Origin", "*">>,
       <<"Access-Control-Allow-Methods", "POST, GET, OPTIONS, PUT, DELETE">>,
       <<"Access-Control-Allow-Credentials", "true">>,
       <<"Access-Control-Max-Age", "86400">>,
       <<"Access-Control-Allow-Headers", "Content-Type, Authorization, X-Requested-With">> >>

\* mutant: the Content-type header forgotten
handle_error_untyped(code, message) ==
    Response(code, <<>>, json_dumps(PyDict(<< <<<<"error">>, PyStr(message)>> >>)))

\* handle_error(code, message)
handle_error(code, message) ==
    Response(code, << <<"Content-type", "application/json">> >>,
             json_dumps(PyDict(<< <<<<"error">>, PyStr(message)>> >>)))

\* obj.get(key) of a record of the tool's output: None when the key is missing
record_get(obj, key) == pairs_get(obj.v, key, PyNone)

\* '{}'.format(v) for a str or None
py_format(v) == IF v.t = "str" THEN v.v ELSE <<"None">>

is_records(result) ==
    /\ result.t = "list"
    /\ \A i \in 1..Len(result.v) : result.v[i].t = "dict"

\* mutant: every url followed by a newline instead of joined by newlines
text_body_terminated(result) ==
    Concat([i \in 1..Len(result.v) |-> record_get(result.v[i], URL).v \o <<NEWLINE>>])

\* '\n'.join([obj.get('url') for obj in result])
text_body(result) ==
    join(<<NEWLINE>>, [i \in 1..Len(result.v) |-> record_get(result.v[i], URL).v])

\* mutant: url as the href and title as the link text
html_body_straight(result) ==
    <<"<ul>">>
    \o Concat([i \in 1..Len(result.v) |->
                 <<"<li><a href=\"">> \o py_format(record_get(result.v[i], URL))
                 \o <<"\">">> \o py_format(record_get(result.v[i], TITLE))
                 \o <<"</a></li>">>])
    \o <<"</ul>">>

\* the list of anchors: title is the href, url the link text
html_body(result) ==
    <<"<ul>">>
    \o Concat([i \in 1..Len(result.v) |->
                 <<"<li><a href=\"">> \o py_format(record_get(result.v[i], TITLE))
                 \o <<"\">">> \o py_format(record_get(result.v[i], URL))
                 \o <<"</a></li>">>])
    \o <<"</ul>">>

\* output_result(result, format): the responses written and the exception raised
output_result(variant, result, format) ==
    IF format = JSON
    THEN [responses |-> << Response(200, << <<"Content-type", "application/json">> >>
                                          \o send_cors_headers,
                                     json_dumps(result)) >>,
          raised |-> "none"]
    ELSE IF format = TEXT
    THEN IF ~is_records(result)
         THEN [responses |-> << [Response(200, << <<"Content-type", "text/plain">> >>, <<>>)
                                  EXCEPT !.wrote = FALSE] >>,
               raised |-> "AttributeError"]
         ELSE IF \E i \in 1..Len(result.v) : record_get(result.v[i], URL).t # "str"
         THEN [responses |-> << [Response(200, << <<"Content-type", "text/plain">> >>, <<>>)
                                  EXCEPT !.wrote = FALSE] >>,
               raised |-> "TypeError"]
         ELSE [responses |-> << Response(200, << <<"Content-type", "text/plain">> >>,
                                          text_body(result)) >>,
               raised |-> "none"]
    ELSE IF format = HTML
    THEN IF ~is_records(result)
         THEN [responses |-> <<>>, raised |-> "AttributeError"]
         ELSE [responses |-> << Response(200, << <<"Content-type", "text/html">> >>,
                                          PAGE_TEMPLATE_format(variant, html_body(result))) >>,
               raised |-> "none"]
    ELSE [responses |-> <<>>, raised |-> "none"]

(***************************************************************************)
(* Parameter parsing.                                                      *)
(***************************************************************************)
DigitValue(c) ==
    CASE c = "0" -> 0 [] c = "1" -> 1 [] c = "2" -> 2 [] c = "3" -> 3 [] c = "4" -> 4
      [] c = "5" -> 5 [] c = "6" -> 6 [] c = "7" -> 7 [] c = "8" -> 8 [] c = "9" -> 9

Digits == {"0", "1", "2", "3", "4", "5", "6", "7", "8", "9"}

RECURSIVE digits_value(_, _)
digits_value(s, acc) ==
    IF s = <<>> THEN acc ELSE digits_value(Tail(s), acc * 10 + DigitValue(Head(s)))

\* int(text) on a header value: decimal digits, otherwise ValueError
py_int(text) ==
    IF text # <<>> /\ \A i \in 1..Len(text) : text[i] \in Digits
    THEN [raised |-> "none", value |-> digits_value(text, 0)]
    ELSE [raised |-> "ValueError", value |-> 0]

\* parse_get_params: self.get_params
parse_get_params(path) ==
    IF contains(path, "?")
    THEN dict_of_params(split(path, "?")[2])
    ELSE [raised |-> "none", value |-> PyDict(<<>>)]

\* the body was read and decoded: self.post_params
body_params(parsed) ==
    [raised |-> parsed.raised, value |-> parsed.value, read |-> TRUE]

\* body = self.rfile.read(content_length), parsed as JSON or as a form
read_body(content_type, body, n) ==
    IF n.raised # "none"
    THEN [raised |-> n.raised, value |-> PyNone, read |-> FALSE]
    ELSE IF content_type = PyStr(APPLICATION_JSON)
    THEN body_params(json_loads(SubSeq(body, 1, n.value)))
    ELSE body_params(dict_of_params(SubSeq(body, 1, n.value)))

\* parse_post_params: self.post_params, and whether rfile.read was called
parse_post_params(headers, body) ==
    IF headers.content_length.t = "str" /\ headers.content_length.v # <<>>
    THEN read_body(headers.content_type, body, py_int(headers.content_length.v))
    ELSE [raised |-> "none", value |-> PyDict(<<>>), read |-> FALSE]

\* parse_get_params() then parse_post_params(): the second runs only when the
\* first did not raise
both_params(g, p) ==
    IF g.raised # "none"
    THEN [raised |-> g.raised, get_params |-> PyNone, post_params |-> PyNone,
          read |-> FALSE]
    ELSE [raised |-> p.raised, get_params |-> g.value, post_params |-> p.value,
          read |-> p.read]

\* parse_params
parse_params(r) ==
    both_params(parse_get_params(r.path), parse_post_params(r.headers, r.body))

(***************************************************************************)
(* The handlers.  `tool` is what the external tool does when it is run:    *)
(* its exit status and what it prints.                                     *)
(***************************************************************************)
\* what the handler leaves when output_result was its last call
Rendered(o, calls, read) == Outcome(o.responses, calls, o.raised, <<>>, read)

\* mutant: the default of the `format` line pasted into the `q` line
search_value_pasted(get_params) == pairs_get(get_params.v, Q, PyStr(HTML)).v

\* self.get_params.get('q', '')
search_value(get_params) == pairs_get(get_params.v, Q, PyStr(EMPTY)).v

\* self.get_params.get('format', 'html')
format_value(get_params) == pairs_get(get_params.v, FORMAT, PyStr(HTML)).v

\* [command_dir + '/bookmarks', 'suggest', search_value]
suggest_command(value) == <<bookmarks_cmd, SUGGEST, value>>

\* the except branch of bookmarks-server.py; server.py has no try
search_failed(variant, value) ==
    IF variant = "bookmarks-server.py"
    THEN output_result(variant,
                       PyDict(<< <<<<"error">>,
                                   PyStr(<<"Error searching for ">> \o value)>> >>),
                       JSON)
    ELSE [responses |-> <<>>, raised |-> "CalledProcessError"]

\* result = json.loads(result); self.output_result(result, format)
search_output(variant, parsed, format, command, read) ==
    IF parsed.raised # "none"
    THEN Outcome(<<>>, <<command>>, parsed.raised, <<>>, read)
    ELSE Rendered(output_result(variant, parsed.value, format), <<command>>, read)

\* subprocess.check_output(command) and what follows it
run_suggest(variant, value, format, tool, read) ==
    IF tool.returncode # 0
    THEN Rendered(search_failed(variant, value), <<suggest_command(value)>>, read)
    ELSE search_output(variant, json_loads(tool.stdout), format,
                       suggest_command(value), read)

search_parsed(variant, pp, tool) ==
    IF pp.raised # "none"
    THEN Outcome(<<>>, <<>>, pp.raised, <<>>, pp.read)
    ELSE run_suggest(variant, search_value(pp.get_params), format_value(pp.get_params),
                     tool, pp.read)

handle_search(variant, r, tool) == search_parsed(variant, parse_params(r), tool)

\* mutant: the comprehension without its `if line`
keep_all_lines(lines) == lines

\* [line for line in stderr if line]
remove_empty_lines(lines) == SelectSeq(lines, LAMBDA line : line # <<>>)

\* stderr.decode('utf-8').split('\n'), empty lines removed
stderr_lines(stderr) == remove_empty_lines(split(stderr, NEWLINE))

add_command(url, title, category) ==
    <<bookmarks_cmd, <<"a", "d", "d">>, <<"-", "-", "u", "r", "i">>, url, <<"-", "-", "t", "i", "t", "l", "e">>, title, <<"-", "-", "c", "a", "t", "e", "g", "o", "r", "y">>, category>>

add_error(lines) ==
    PyDict(<< <<<<"error">>, PyStr(<<"Error adding url">>)>>,
              <<<<"message">>, PyList([i \in 1..Len(lines) |-> PyStr(lines[i])])>> >>)

add_success == PyDict(<< <<<<"success">>, PyStr(<<"Url added">>)>> >>)

\* subprocess.Popen(command, ...) and what follows it
run_add(variant, url, title, category, tool, read) ==
    IF \E v \in {url, title, category} : v.t # "str"
    THEN Outcome(<<>>, <<>>, "TypeError", <<>>, read)
    ELSE IF tool.returncode # 0
    THEN Rendered(output_result(variant, add_error(stderr_lines(tool.stderr)), JSON),
                  <<add_command(url.v, title.v, category.v)>>, read)
    ELSE Rendered(output_result(variant, add_success, JSON),
                  <<add_command(url.v, title.v, category.v)>>, read)

add_parsed(variant, pp, tool) ==
    IF pp.raised # "none"
    THEN Outcome(<<>>, <<>>, pp.raised, <<>>, pp.read)
    ELSE IF pp.post_params.t # "dict"
    THEN Outcome(<<>>, <<>>, "AttributeError", <<>>, pp.read)
    ELSE run_add(variant,
                 pairs_get(pp.post_params.v, URL, PyStr(EMPTY)),
                 pairs_get(pp.post_params.v, TITLE, PyStr(EMPTY)),
                 pairs_get(pp.post_params.v, CATEGORY, PyStr(EMPTY)),
                 tool, pp.read)

handle_add(variant, r, tool) == add_parsed(variant, parse_params(r), tool)

FORM_MARKUP ==
    <<"\n        <form action=\"/add\" method=\"post\">\n            <label for=\"url\">Url</label>\n            <input type=\"text\" id=\"url\" name=\"url\" required>\n            <label for=\"title\">Title</label>\n            <input type=\"text\" id=\"title\" name=\"title\" required>\n            <label for=\"category\">Category</label>\n            <input type=\"text\" id=\"category\" name=\"category\" required>\n            <input type=\"submit\" value=\"Add\">\n        </form>\n\n        ">>

handle_form(variant) ==
    Response(200, << <<"Content-type", "text/html">> >>,
             PAGE_TEMPLATE_format(variant, FORM_MARKUP))

static_dir == command_dir \o <<"/", "s", "t", "a", "t", "i", "c">>

extension_to_content_type ==
    << <<<<".", "j", "s">>, "application/javascript">>,
       <<<<".", "j", "s", "o", "n">>, "application/json">>,
       <<<<".", "h", "t", "m", "l">>, "text/html">>,
       <<<<".", "s", "v", "g">>, "image/svg+xml">>,
       <<<<".", "c", "s", "s">>, "text/css">>,
       <<<<".", "p", "n", "g">>, "image/png">> >>

\* the static-asset branch of do_GET for the regular file `node`
static_asset(extension, node) ==
    IF ~pairs_has(extension_to_content_type, extension)
    THEN Outcome(<< handle_error(404, <<"Invalid extension ">> \o extension) >>,
                 <<>>, "none", <<>>, FALSE)
    ELSE Outcome(<< Response(200,
                             << <<"Content-type",
                                  pairs_get(extension_to_content_type, extension, "")>> >>,
                             file_content(node)) >>,
                 <<>>, "none", <<node>>, FALSE)

ROOT_MARKUP ==
    <<"Go to <a href=\"https://github.com/ArtBIT/bash-bookmarks\">Bash bookmarks</a> for more info.">>

\* do_GET of bookmarks-server.py after the /search and /form routes; `found`
\* is where static_dir + self.path leads
static_or_root(variant, path, found) ==
    IF exists(found) /\ isfile(found)
    THEN static_asset(splitext(path), found.node)
    ELSE IF path = ROOT \/ path = EMPTY
    THEN Outcome(<< Response(200, << <<"Content-type", "text/html">> >>,
                             PAGE_TEMPLATE_format(variant, ROOT_MARKUP)) >>,
                 <<>>, "none", <<>>, FALSE)
    ELSE NoOutcome

do_GET(variant, r, tool) ==
    IF startswith(r.path, SEARCH) THEN handle_search(variant, r, tool)
    ELSE IF variant = "server.py" THEN NoOutcome
    ELSE IF startswith(r.path, FORM)
    THEN Outcome(<< handle_form(variant) >>, <<>>, "none", <<>>, FALSE)
    ELSE static_or_root(variant, r.path, resolve(static_dir \o r.path))

do_POST(variant, r, tool) ==
    IF startswith(r.path, ADD) THEN handle_add(variant, r, tool) ELSE NoOutcome

\* mutant: the preflight answered without send_cors_headers()
do_OPTIONS_bare(variant, r) ==
    IF startswith(r.path, ADD)
    THEN Outcome(<< [Response(200, <<>>, <<>>) EXCEPT !.wrote = FALSE] >>,
                 <<>>, "none", <<>>, FALSE)
    ELSE NoOutcome

do_OPTIONS(variant, r) ==
    IF startswith(r.path, ADD)
    THEN Outcome(<< [Response(200, send_cors_headers, <<>>) EXCEPT !.wrote = FALSE] >>,
                 <<>>, "none", <<>>, FALSE)
    ELSE NoOutcome

(***************************************************************************)
(* Requests and tool behaviours the model draws from.                      *)
(***************************************************************************)
\* the sequences of at most n elements of S
SeqsUpTo(S, n) == UNION { [1..k -> S] : k \in 0..n }

DigitChar(d) ==
    CASE d = 0 -> "0" [] d = 1 -> "1" [] d = 2 -> "2" [] d = 3 -> "3" [] d = 4 -> "4"
      [] d = 5 -> "5" [] d = 6 -> "6" [] d = 7 -> "7" [] d = 8 -> "8" [] d = 9 -> "9"

\* the decimal numeral a client writes for a body length
RECURSIVE decimal(_)
decimal(n) == IF n < 10 THEN <<DigitChar(n)>> ELSE decimal(n \div 10) \o <<DigitChar(n % 10)>>

QueryParams ==
    { <<"q", "=", "a">>, <<"q", "=">>, <<"q">>, <<"f", "o", "r", "m", "a", "t", "=", "j", "s", "o", "n">>, <<"f", "o", "r", "m", "a", "t", "=", "t", "e", "x", "t">>, <<"f", "o", "r", "m", "a", "t", "=", "h", "t", "m", "l">>, <<"f", "o", "r", "m", "a", "t", "=", "x", "m", "l">> }

SearchPaths ==
    {SEARCH} \cup { SEARCH \o <<"?">> \o join(<<"&">>, l) : l \in SeqsUpTo(QueryParams, MaxParams) }

StaticPaths ==
    { ROOT, FORM, <<"/", "i", "n", "d", "e", "x", ".", "h", "t", "m", "l">>, <<"/", "a", "p", "p", ".", "j", "s">>, <<"/", "f", "a", "v", "i", "c", "o", "n", ".", "p", "n", "g">>, <<"/", "n", "o", "t", "e", "s", ".", "t", "x", "t">>, <<"/", "R", "E", "A", "D", "M", "E">>,
      <<"/", "c", "s", "s", "/", "s", "t", "y", "l", "e", ".", "c", "s", "s">>, <<"/", "c", "s", "s">>, <<"/", "m", "i", "s", "s", "i", "n", "g", ".", "j", "s">>, <<"/", "a", "p", "p", ".", "j", "s", "?", "v", "=", "a">>, <<"/", "c", "s", "s", "/", ".", ".", "/", "a", "p", "p", ".", "j", "s">>,
      <<"/", ".", ".", "/", "d", "a", "t", "a", ".", "j", "s", "o", "n">>, <<"/", ".", ".", "/", "b", "o", "o", "k", "m", "a", "r", "k", "s", "-", "s", "e", "r", "v", "e", "r", ".", "p", "y">> }

OTHER_PATH == <<"/", "o", "t", "h", "e", "r">>

FormParams == { <<"u", "r", "l", "=", "a">>, <<"t", "i", "t", "l", "e", "=", "b">>, <<"c", "a", "t", "e", "g", "o", "r", "y", "=", "c">>, <<"x">>, <<"a", "=", "b", "=", "c">> }

FormBodies == { join(<<"&">>, l) : l \in SeqsUpTo(FormParams, MaxParams) }

JsonBodies ==
    { json_dumps(PyDict(<< <<URL, PyStr(<<"h", "t", "t", "p", ":", "/", "/", "a">>)>>, <<TITLE, PyStr(<<"A">>)>>,
                           <<CATEGORY, PyStr(<<"C">>)>> >>)),
      json_dumps(PyDict(<< <<URL, PyStr(<<"h", "t", "t", "p", ":", "/", "/", "a">>)>> >>)),
      json_dumps(PyDict(<< <<URL, PyList(<<PyStr(<<"a">>)>>)>> >>)),
      json_dumps(PyList(<<PyStr(<<"a">>)>>)),
      json_dumps(PyStr(<<"a">>)),
      <<"{", "\"", "u", "r", "l", "\"", ":", " ", "\"", "a", "\"">> }

Bodies == FormBodies \cup JsonBodies

ContentTypes ==
    { PyNone, PyStr(APPLICATION_JSON), PyStr(<<"application/x-www-form-urlencoded">>) }

\* Content-Length as clients send it: absent, the body's length, or not a number
ContentLengths(body) == { PyNone, PyStr(decimal(Len(body))), PyStr(<<"x">>) }

NoHeaders == [content_length |-> PyNone, content_type |-> PyNone]

Request(method, path, headers, body) ==
    [method |-> method, path |-> path, headers |-> headers, body |-> body]

GetRequests ==
    { Request("GET", p, NoHeaders, <<>>) : p \in SearchPaths \cup StaticPaths }

PostRequests ==
    UNION { { Request("POST", p, [content_length |-> cl, content_type |-> ct], b) :
                p \in {ADD, OTHER_PATH}, ct \in ContentTypes, cl \in ContentLengths(b) } :
            b \in Bodies }

OptionsRequests ==
    UNION { { Request("OPTIONS", p,
                      [content_length |-> cl, content_type |-> PyStr(APPLICATION_JSON)], b) :
                p \in {ADD, OTHER_PATH}, cl \in ContentLengths(b) } :
            b \in JsonBodies }

Requests == GetRequests \cup PostRequests \cup OptionsRequests

\* BookmarkRecords the tool prints
Records ==
    { PyDict(<< <<URL, PyStr(<<"h", "t", "t", "p", ":", "/", "/", "a">>)>>, <<TITLE, PyStr(<<"A">>)>> >>),
      PyDict(<< <<TITLE, PyStr(<<"B">>)>>, <<URL, PyStr(<<"h", "t", "t", "p", ":", "/", "/", "b">>)>> >>),
      PyDict(<< <<<<"i", "d">>, PyStr(<<"x">>)>>, <<URL, PyStr(<<"h", "t", "t", "p", ":", "/", "/", "b">>)>>, <<TITLE, PyStr(<<"B">>)>>,
                <<CATEGORY, PyStr(<<"C", QUOTE, BACKSLASH>>)>>,
                <<<<"t", "a", "g", "s">>, PyList(<<PyStr(<<"t">>)>>)>> >>) }

\* what running the tool gives: exit status, standard output, standard error;
\* `records` is the record sequence a `suggest` run holds and prints
Ran(returncode, records, stdout, stderr) ==
    [returncode |-> returncode, records |-> records, stdout |-> stdout, stderr |-> stderr]

\* stdout that is no JSON document: nothing at all, or a diagnostic
BrokenOutputs == { <<>>, <<"o", "o", "p", "s">> }

\* a string as the tool writes it
RECURSIVE tool_string(_)
tool_string(s) ==
    IF s = <<>> THEN <<>>
    ELSE (IF Head(s) \in {QUOTE, BACKSLASH} THEN <<BACKSLASH>> ELSE <<>>)
         \o <<Head(s)>> \o tool_string(Tail(s))

\* a value as the tool writes it, with the tool's own separators
RECURSIVE tool_print(_, _, _)
tool_print(v, item_sep, key_sep) ==
    CASE v.t = "str" -> <<QUOTE>> \o tool_string(v.v) \o <<QUOTE>>
      [] v.t = "list" ->
            <<"[">> \o join(item_sep, [i \in 1..Len(v.v) |->
                                          tool_print(v.v[i], item_sep, key_sep)])
                    \o <<"]">>
      [] v.t = "dict" ->
            <<"{">> \o join(item_sep,
                            [i \in 1..Len(v.v) |->
                                <<QUOTE>> \o tool_string(v.v[i][1]) \o <<QUOTE>> \o key_sep
                                          \o tool_print(v.v[i][2], item_sep, key_sep)])
                    \o <<"}">>

\* the layouts a JSON array leaves the tool in: on one line with a space after
\* each separator, or compact with a newline at the end
ToolLayouts(records) ==
    { tool_print(PyList(records), <<",", " ">>, <<":", " ">>),
      tool_print(PyList(records), <<",">>, <<":">>) \o <<NEWLINE>> }

\* `bookmarks suggest`: prints its records as a JSON array, or prints text that
\* is no JSON; exits 0 or 1
SuggestOutcomes ==
    UNION { { Ran(rc, l, o, <<>>) : rc \in {0, 1}, o \in ToolLayouts(l) } :
            l \in SeqsUpTo(Records, MaxRecords) }
    \cup { Ran(rc, <<>>, o, <<>>) : rc \in {0, 1}, o \in BrokenOutputs }

\* `bookmarks add`: diagnostics on standard error; exits 0 or 1
AddOutcomes ==
    { Ran(rc, <<>>, <<>>, e) : rc \in {0, 1}, e \in SeqsUpTo({"e", NEWLINE}, MaxStderrLen) }

NoProc == Ran(0, <<>>, <<>>, <<>>)

(***************************************************************************)
(* The desktop search provider, gnome-bookmarks-search-provider.py: a       *)
(* D-Bus service object that keeps the bookmark command and the results of  *)
(* the last search.                                                         *)
(***************************************************************************)
ID == <<"i", "d">>

\* path_join(expanduser("~"), "Documents", "bookmarks", "bookmarks")
default_cmd == <<"/home/user/Documents/bookmarks/bookmarks">>

\* getenv("BOOKMARKS_CMD") when it is set and not empty, the default otherwise
configured_cmd(env) == IF env.t = "str" /\ env.v # <<>> THEN env ELSE PyStr(default_cmd)

\* if not subprocess.call(["which", self.cmd]): self.cmd = None
\* `not status` is true for the exit status 0
checked_cmd(configured, which_status) == IF which_status = 0 THEN PyNone ELSE configured

\* getenv("DISABLE_NOTIFICATIONS", "false").lower() == "true"
notifications_disabled(env) == env.t = "str" /\ env.v \in {<<"true">>, <<"True">>, <<"TRUE">>}

\* repr of a bytes object, as an f-string writes it
RECURSIVE bytes_escape(_, _)
bytes_escape(s, quote) ==
    IF s = <<>> THEN <<>>
    ELSE (CASE Head(s) = NEWLINE -> <<BACKSLASH, "n">>
            [] Head(s) = BACKSLASH -> <<BACKSLASH, BACKSLASH>>
            [] Head(s) = quote -> <<BACKSLASH, quote>>
            [] OTHER -> <<Head(s)>>)
         \o bytes_escape(Tail(s), quote)

bytes_repr(s) ==
    IF contains(s, "'") /\ ~contains(s, QUOTE)
    THEN <<"b", QUOTE>> \o bytes_escape(s, QUOTE) \o <<QUOTE>>
    ELSE <<"b", "'">> \o bytes_escape(s, "'") \o <<"'">>

\* notify(message, body, error): the Notify calls sent to the session bus
notify(disabled, message, body, error) ==
    IF ~error /\ disabled THEN <<>>
    ELSE << [message |-> message, body |-> body, transient |-> ~error,
             timeout |-> IF error THEN 0 ELSE 3000] >>

\* what a method of the service leaves: its return value, the exception it
\* raised, the command lines it ran, the notifications it sent
Reply(returned, raised, invoked, notified) ==
    [returned |-> returned, raised |-> raised, invoked |-> invoked, notified |-> notified]

\* [self.cmd, 'suggest', ' '.join(terms)]
provider_command(command, terms) == <<command.v, SUGGEST, join(<<" ">>, terms)>>

\* json.loads(result), a JSONDecodeError notified and turned into []
decoded(disabled, parsed, stdout, command) ==
    IF parsed.raised # "none"
    THEN Reply(PyList(<<>>), "none", <<command>>,
               notify(disabled, <<"Error">>,
                      <<"Could not decode the search results: ">> \o bytes_repr(stdout),
                      TRUE))
    ELSE Reply(parsed.value, "none", <<command>>, <<>>)

\* subprocess.check_output(command): the executable may be missing, or exit
\* with a non-zero status
checked_output(disabled, launch, command) ==
    IF ~launch.started THEN Reply(PyNone, "FileNotFoundError", <<command>>, <<>>)
    ELSE IF launch.ran.returncode # 0
    THEN Reply(PyNone, "CalledProcessError", <<command>>, <<>>)
    ELSE decoded(disabled, json_loads(launch.ran.stdout), launch.ran.stdout, command)

\* search(terms)
search(command, disabled, terms, launch) ==
    IF command = PyNone THEN Reply(PyList(<<>>), "none", <<>>, <<>>)
    ELSE checked_output(disabled, launch, provider_command(command, terms))

\* {result['id']: result for result in results}: a record without `id` raises
\* KeyError; a repeated id keeps its first place and its last record
RECURSIVE keyed(_, _)
keyed(list, acc) ==
    IF list = <<>> THEN [raised |-> "none", value |-> acc]
    ELSE IF ~pairs_has(Head(list).v, ID) THEN [raised |-> "KeyError", value |-> <<>>]
    ELSE keyed(Tail(list), pairs_set(acc, record_get(Head(list), ID).v, Head(list)))

\* list(self.results.keys())
keys(d) == [i \in 1..Len(d) |-> d[i][1]]

\* the body both result-set methods share: the new self.results and the reply
result_set(old, found, by_id) ==
    IF found.raised # "none" THEN [results |-> old, reply |-> found]
    ELSE IF by_id.raised # "none"
    THEN [results |-> old, reply |-> [found EXCEPT !.returned = PyNone, !.raised = by_id.raised]]
    ELSE [results |-> by_id.value, reply |-> [found EXCEPT !.returned = keys(by_id.value)]]

searched(old, found) ==
    result_set(old, found,
               IF found.raised = "none" THEN keyed(found.returned.v, <<>>)
               ELSE [raised |-> "none", value |-> <<>>])

GetInitialResultSet(command, disabled, old, terms, launch) ==
    searched(old, search(command, disabled, terms, launch))

\* previous_results is not looked at
GetSubsearchResultSet(command, disabled, old, previous_results, new_terms, launch) ==
    searched(old, search(command, disabled, new_terms, launch))

\* the meta of one identifier: self.results[identifier], then its url and title
result_meta(d, identifier) ==
    IF ~pairs_has(d, identifier) THEN [raised |-> "KeyError", value |-> PyNone]
    ELSE IF ~pairs_has(pairs_get(d, identifier, PyNone).v, URL)
            \/ ~pairs_has(pairs_get(d, identifier, PyNone).v, TITLE)
    THEN [raised |-> "KeyError", value |-> PyNone]
    ELSE [raised |-> "none",
          value |-> [id |-> identifier,
                     name |-> record_get(pairs_get(d, identifier, PyNone), URL),
                     description |-> record_get(pairs_get(d, identifier, PyNone), TITLE),
                     gicon |-> <<"url-copy">>]]

\* GetResultMetas(identifiers): the loop stops at the first KeyError
RECURSIVE get_result_metas(_, _, _)
get_result_metas(d, identifiers, acc) ==
    IF identifiers = <<>> THEN Reply(acc, "none", <<>>, <<>>)
    ELSE IF result_meta(d, Head(identifiers)).raised # "none"
    THEN Reply(PyNone, result_meta(d, Head(identifiers)).raised, <<>>, <<>>)
    ELSE get_result_metas(d, Tail(identifiers),
                          Append(acc, result_meta(d, Head(identifiers)).value))

GetResultMetas(d, identifiers) == get_result_metas(d, identifiers, <<>>)

\* ActivateResult(identifier, terms, timestamp): xdg-open on the result's url
ActivateResult(d, identifier) ==
    IF ~pairs_has(d, identifier) \/ ~pairs_has(pairs_get(d, identifier, PyNone).v, URL)
    THEN Reply(PyNone, "KeyError", <<>>, <<>>)
    ELSE Reply(PyNone, "none",
               << <<<<"xdg-open">>, record_get(pairs_get(d, identifier, PyNone), URL).v>> >>,
               <<>>)

\* str(terms) of the dbus.Array of dbus.String the bus hands over
terms_repr(terms) ==
    <<"dbus.Array([">>
    \o join(<<", ">>, [i \in 1..Len(terms) |-> <<"dbus.String('">> \o terms[i] \o <<"')">>])
    \o <<"], signature=dbus.Signature('s'))">>

\* LaunchSearch(terms, timestamp)
LaunchSearch(disabled, terms) ==
    Reply(PyNone, "none", <<>>,
          notify(disabled, <<"Launched Bookmark search for ">> \o terms_repr(terms), <<>>, FALSE))

\* --- what the service is given -------------------------------------------
\* the environments the service is started in: nothing set, BOOKMARKS_CMD
\* empty, BOOKMARKS_CMD a path, DISABLE_NOTIFICATIONS "true"
Environs ==
    { [BOOKMARKS_CMD |-> PyNone, DISABLE_NOTIFICATIONS |-> PyNone],
      [BOOKMARKS_CMD |-> PyStr(<<>>), DISABLE_NOTIFICATIONS |-> PyNone],
      [BOOKMARKS_CMD |-> PyStr(<<"/opt/bookmarks/bookmarks">>), DISABLE_NOTIFICATIONS |-> PyNone],
      [BOOKMARKS_CMD |-> PyNone, DISABLE_NOTIFICATIONS |-> PyStr(<<"true">>)] }

\* the search terms the shell passes: one word, then a second one typed after it
Terms == { << <<"a">> >>, << <<"a">>, <<"b">> >> }

\* BookmarkRecords with the `id` the provider keys them by
RECORD_X == PyDict(<< <<ID, PyStr(<<"x">>)>>, <<URL, PyStr(<<"a">>)>>, <<TITLE, PyStr(<<"A">>)>> >>)
RECORD_Y == PyDict(<< <<ID, PyStr(<<"y">>)>>, <<URL, PyStr(<<"b">>)>>, <<TITLE, PyStr(<<"B">>)>> >>)
\* and one without: the tool's contract leaves `id` optional
RECORD_ANONYMOUS == PyDict(<< <<URL, PyStr(<<"c">>)>>, <<TITLE, PyStr(<<"C">>)>> >>)

\* the record sequences the tool finds for the provider's searches
ProviderFinds ==
    { <<>>, <<RECORD_X>>, <<RECORD_Y>>, <<RECORD_X, RECORD_Y>>, <<RECORD_Y, RECORD_X>>,
      <<RECORD_X, RECORD_ANONYMOUS>> }

\* result IDs a caller passes: the ones the tool knows and one it never gave
Identifiers == { <<"x">>, <<"y">>, <<"z">> }

IdentifierLists == SeqsUpTo(Identifiers, MaxIds)

Launch(started, ran) == [started |-> started, ran |-> ran]

\* what happens when the service runs its command: the executable is not
\* there, it exits with status 1, it prints records, or it prints no JSON
Launches ==
    { Launch(FALSE, NoProc), Launch(TRUE, Ran(1, <<>>, <<>>, <<>>)) }
    \cup UNION { { Launch(TRUE, Ran(0, l, o, <<>>)) : o \in ToolLayouts(l) } :
                 l \in ProviderFinds }
    \cup { Launch(TRUE, Ran(0, <<>>, o, <<>>)) : o \in BrokenOutputs }

NoReply == Reply(PyNone, "none", <<>>, <<>>)

(***************************************************************************)
(* The state machine: one request at a time is received, handled by the    *)
(* method's handler, and its connection closed.                            *)
(***************************************************************************)
VARIABLES
    variant,    \* the server file that is running
    pc,         \* "idle", "handling", "done"; "off" when no gateway runs
    req,        \* the request being handled
    proc,       \* what the external tool did, when the handler ran it
    out,        \* what the handler left behind: responses written, command
                \* lines run, exception raised, files opened, body read
    environ,    \* the search provider's environment variables
    which_status,   \* exit status of `which` in the provider's constructor
    cmd,        \* self.cmd
    disable_notifications,  \* self.disable_notifications
    results,    \* self.results: the last search's records by id
    issued,     \* every <<id, record>> a result-set method has returned
    call,       \* the last method called on the service, with its arguments
    reply       \* what that method returned, raised, ran and notified

gateway == <<variant, pc, req, proc, out>>

service == <<environ, which_status, cmd, disable_notifications, results, issued, call, reply>>

vars == <<variant, pc, req, proc, out,
          environ, which_status, cmd, disable_notifications, results, issued, call, reply>>

NoRequest == Request("NONE", <<>>, NoHeaders, <<>>)

NoEnviron == [BOOKMARKS_CMD |-> PyNone, DISABLE_NOTIFICATIONS |-> PyNone]

NoCall == [method |-> "none", terms |-> <<>>, identifiers |-> <<>>]

\* no search provider in the picture
NoService ==
    /\ environ = NoEnviron
    /\ which_status = 0
    /\ cmd = PyNone
    /\ disable_notifications = FALSE
    /\ results = <<>>
    /\ issued = {}
    /\ call = NoCall
    /\ reply = NoReply

Init ==
    /\ variant \in Variants
    /\ pc = "idle"
    /\ req = NoRequest
    /\ proc = NoProc
    /\ out = NoOutcome
    /\ NoService

\* BaseHTTPRequestHandler has parsed a request line and headers
Receive ==
    /\ pc = "idle"
    /\ req' \in Requests
    /\ pc' = "handling"
    /\ UNCHANGED <<variant, proc, out>>
    /\ UNCHANGED service

\* the handler has returned or raised; `tool` is remembered when it was run
Handled(o, tool) ==
    /\ out' = o
    /\ proc' = IF o.calls # <<>> THEN tool ELSE NoProc
    /\ pc' = "done"
    /\ UNCHANGED <<variant, req>>
    /\ UNCHANGED service

DoGET ==
    /\ pc = "handling"
    /\ req.method = "GET"
    /\ \E tool \in SuggestOutcomes : Handled(do_GET(variant, req, tool), tool)

DoPOST ==
    /\ pc = "handling"
    /\ req.method = "POST"
    /\ \E tool \in AddOutcomes : Handled(do_POST(variant, req, tool), tool)

DoOPTIONS ==
    /\ pc = "handling"
    /\ req.method = "OPTIONS"
    /\ Handled(do_OPTIONS(variant, req), NoProc)

\* the connection is closed; the handler object and its per-request state go
Close ==
    /\ pc = "done"
    /\ pc' = "idle"
    /\ req' = NoRequest
    /\ proc' = NoProc
    /\ out' = NoOutcome
    /\ UNCHANGED variant
    /\ UNCHANGED service

Next == Receive \/ DoGET \/ DoPOST \/ DoOPTIONS \/ Close

Spec == Init /\ [][Next]_vars

(***************************************************************************)
(* The search provider's state machine: the service object is constructed, *)
(* then the desktop shell calls its methods in any order.                  *)
(***************************************************************************)
\* no gateway in the picture
NoGateway ==
    /\ variant = "none"
    /\ pc = "off"
    /\ req = NoRequest
    /\ proc = NoProc
    /\ out = NoOutcome

\* the state SearchBookmarksService.__init__ leaves
ProviderInit ==
    /\ NoGateway
    /\ environ \in Environs
    /\ which_status \in {0, 1}
    /\ cmd = checked_cmd(configured_cmd(environ.BOOKMARKS_CMD), which_status)
    /\ disable_notifications = notifications_disabled(environ.DISABLE_NOTIFICATIONS)
    /\ results = <<>>
    /\ issued = {}
    /\ call = NoCall
    /\ reply = NoReply

\* a result-set method has run: self.results and the reply are what it left,
\* and the ids it returned are remembered with their records
ResultSet(r) ==
    /\ results' = r.results
    /\ reply' = r.reply
    /\ issued' = IF r.reply.raised = "none"
                 THEN issued \cup { r.results[i] : i \in 1..Len(r.results) }
                 ELSE issued
    /\ UNCHANGED <<environ, which_status, cmd, disable_notifications>>
    /\ UNCHANGED gateway

OnGetInitialResultSet ==
    \E terms \in Terms, launch \in Launches :
        /\ call' = [method |-> "GetInitialResultSet", terms |-> terms, identifiers |-> <<>>]
        /\ ResultSet(GetInitialResultSet(cmd, disable_notifications, results, terms, launch))

OnGetSubsearchResultSet ==
    \E previous_results \in {<<>>, keys(results)}, new_terms \in Terms, launch \in Launches :
        /\ call' = [method |-> "GetSubsearchResultSet", terms |-> new_terms,
                    identifiers |-> previous_results]
        /\ ResultSet(GetSubsearchResultSet(cmd, disable_notifications, results,
                                           previous_results, new_terms, launch))

\* a method that leaves self.results alone has run
Replied(r) ==
    /\ reply' = r
    /\ UNCHANGED <<environ, which_status, cmd, disable_notifications, results, issued>>
    /\ UNCHANGED gateway

OnGetResultMetas ==
    \E identifiers \in IdentifierLists :
        /\ call' = [method |-> "GetResultMetas", terms |-> <<>>, identifiers |-> identifiers]
        /\ Replied(GetResultMetas(results, identifiers))

OnActivateResult ==
    \E identifier \in Identifiers :
        /\ call' = [method |-> "ActivateResult", terms |-> <<>>,
                    identifiers |-> <<identifier>>]
        /\ Replied(ActivateResult(results, identifier))

OnLaunchSearch ==
    \E terms \in Terms :
        /\ call' = [method |-> "LaunchSearch", terms |-> terms, identifiers |-> <<>>]
        /\ Replied(LaunchSearch(disable_notifications, terms))

ProviderNext ==
    \/ OnGetInitialResultSet
    \/ OnGetSubsearchResultSet
    \/ OnGetResultMetas
    \/ OnActivateResult
    \/ OnLaunchSearch

ProviderSpec == ProviderInit /\ [][ProviderNext]_vars


(***************************************************************************)
(* Properties.  They speak about the state a handler leaves (pc = "done"). *)
(***************************************************************************)
Done == pc = "done"
IsSearch == req.method = "GET" /\ startswith(req.path, SEARCH)
IsAdd == req.method = "POST" /\ startswith(req.path, ADD)
ToolRan == out.calls # <<>>

\* the value of header `name` in a response, "" when it is not sent
HeaderOf(resp, name) ==
    IF \E i \in 1..Len(resp.headers) : resp.headers[i][1] = name
    THEN resp.headers[CHOOSE i \in 1..Len(resp.headers) : resp.headers[i][1] = name][2]
    ELSE ""

IsJsonResponse(resp) == HeaderOf(resp, "Content-type") = "application/json"

\* the body is a JSON object with an `error` member
HasErrorField(resp) ==
    /\ resp.wrote
    /\ json_loads(resp.body).raised = "none"
    /\ json_loads(resp.body).value.t = "dict"
    /\ pairs_has(json_loads(resp.body).value.v, <<"error">>)

\* exactly one complete response, and nothing raised
AnsweredOnce == out.raised = "none" /\ Len(out.responses) = 1

\* the name=value parts of the request's query string
QueryParts(path) ==
    IF contains(path, "?") THEN split(split(path, "?")[2], "&") ELSE <<>>

CountOf(s, c) == Cardinality({ i \in 1..Len(s) : s[i] = c })

\* every query parameter is one name, one `=`, one value
WellFormed(parts) == \A i \in 1..Len(parts) : CountOf(parts[i], "=") = 1

\* the places of the query parameters named `name`
Named(parts, name) ==
    { i \in 1..Len(parts) : parts[i] = name \/ startswith(parts[i], name \o <<"=">>) }

\* the value of the last of the parameters at `places`
LastValue(parts, places, name) ==
    SubSeq(parts[CHOOSE k \in places : \A j \in places : j <= k],
           Len(name) + 2,
           Len(parts[CHOOSE k \in places : \A j \in places : j <= k]))

\* the value the query gives parameter `name`: its last occurrence's
Requested(parts, name, default) ==
    IF Named(parts, name) = {} THEN default
    ELSE LastValue(parts, Named(parts, name), name)

----------------------------------------------------------------------------
\* the lines of a text that hold at least one character, in order
RECURSIVE NonEmptyLines(_, _)
NonEmptyLines(s, cur) ==
    IF s = <<>> THEN (IF cur = <<>> THEN <<>> ELSE <<cur>>)
    ELSE IF Head(s) = NEWLINE
         THEN (IF cur = <<>> THEN <<>> ELSE <<cur>>) \o NonEmptyLines(Tail(s), <<>>)
         ELSE NonEmptyLines(Tail(s), Append(cur, Head(s)))

RECURSIVE QuotedList(_)
QuotedList(lines) ==
    IF lines = <<>> THEN <<>>
    ELSE <<QUOTE>> \o lines[1] \o <<QUOTE>>
         \o (IF Len(lines) > 1 THEN <<",", " ">> \o QuotedList(Tail(lines)) ELSE <<>>)

SuccessPayload == <<"{", QUOTE, "success", QUOTE, ":", " ", QUOTE, "Url added", QUOTE, "}">>

ErrorPayload(lines) ==
    <<"{", QUOTE, "error", QUOTE, ":", " ", QUOTE, "Error adding url", QUOTE, ",", " ",
      QUOTE, "message", QUOTE, ":", " ", "[">> \o QuotedList(lines) \o <<"]", "}">>

\* C1: whenever handle_add has run the tool, the response body is the success
\* payload if the tool exited 0, and otherwise the error payload whose message
\* is the tool's non-empty standard-error lines in their order.
C1_AddPayload ==
    (Done /\ IsAdd /\ ToolRan) =>
        /\ AnsweredOnce
        /\ out.responses[1].wrote
        /\ out.responses[1].body =
              IF proc.returncode = 0 THEN SuccessPayload
              ELSE ErrorPayload(NonEmptyLines(proc.stderr, <<>>))

\* a failing tool whose standard error is one line followed by an empty line
C1_Witness ==
    /\ Done /\ IsAdd /\ ToolRan
    /\ proc.returncode = 1
    /\ proc.stderr = <<"e", NEWLINE, NEWLINE>>
    /\ out.responses[1].body = ErrorPayload(<< <<"e">> >>)

----------------------------------------------------------------------------
NoBadRequest == \A i \in 1..Len(out.responses) : out.responses[i].status # 400

C2_OriginalFor(parts) ==
    /\ (Named(parts, Q) = {}) =>
          /\ out.calls = <<>>
          /\ \E i \in 1..Len(out.responses) : out.responses[i].status = 400
    /\ (WellFormed(parts) /\ Named(parts, Q) # {} /\ Requested(parts, Q, EMPTY) = EMPTY) =>
          out.calls = << <<bookmarks_cmd, SUGGEST, EMPTY>> >>

C2_AmendedFor(parts) ==
    (WellFormed(parts) /\ Requested(parts, Q, EMPTY) = EMPTY) =>
        /\ out.calls = << <<bookmarks_cmd, SUGGEST, EMPTY>> >>
        /\ NoBadRequest

----------------------------------------------------------------------------
\* C3: in every variant and for every format, a search whose tool exits
\* non-zero, or exits 0 with output that is no JSON, is answered with one JSON
\* response carrying an `error` field, and nothing is raised.
C3_UpstreamErrorAnswered ==
    (Done /\ IsSearch /\ ToolRan
     /\ (proc.returncode # 0 \/ proc.stdout \in BrokenOutputs)) =>
        /\ AnsweredOnce
        /\ IsJsonResponse(out.responses[1])
        /\ HasErrorField(out.responses[1])

----------------------------------------------------------------------------
\* C4: every POST /add ends with exactly one response written and no
\* exception leaving the handler.
C4_AddAlwaysAnswers == (Done /\ IsAdd) => AnsweredOnce

----------------------------------------------------------------------------
StaticRoot == << <<"a", "p", "p">>, <<"s", "t", "a", "t", "i", "c">> >>

Beneath(node, dir) == Len(node) > Len(dir) /\ SubSeq(node, 1, Len(dir)) = dir

\* C5: a file is opened and served only when it lies beneath the static root.
C5_ServedBeneathRoot ==
    (Done /\ req.method = "GET") =>
        \A i \in 1..Len(out.opened) : Beneath(out.opened[i], StaticRoot)

----------------------------------------------------------------------------
\* the request names a regular file beneath the static root
NamesStaticFile ==
    /\ resolve(static_dir \o req.path).ok
    /\ resolve(static_dir \o req.path).node \in Files
    /\ Beneath(resolve(static_dir \o req.path).node, StaticRoot)

IsStaticRequest ==
    /\ variant = "bookmarks-server.py"
    /\ req.method = "GET"
    /\ ~startswith(req.path, SEARCH)
    /\ ~startswith(req.path, FORM)

\* C6: a GET that is no /search or /form route, is not `/`, and names no
\* regular file beneath the static root is answered with a 404 response.
C6_MissingFileNotFound ==
    (Done /\ IsStaticRequest /\ req.path # ROOT /\ ~NamesStaticFile) =>
        /\ AnsweredOnce
        /\ out.responses[1].status = 404

----------------------------------------------------------------------------
endswith(s, suffix) ==
    /\ Len(s) >= Len(suffix)
    /\ SubSeq(s, Len(s) - Len(suffix) + 1, Len(s)) = suffix

ServedExtensions == { <<".", "j", "s">>, <<".", "j", "s", "o", "n">>, <<".", "h", "t", "m", "l">>, <<".", "s", "v", "g">>, <<".", "c", "s", "s">>, <<".", "p", "n", "g">> }

\* the file the request names has none of the served extensions
UnservedFile ==
    /\ NamesStaticFile
    /\ \A e \in ServedExtensions : ~endswith(Last(resolve(static_dir \o req.path).node), e)

\* C7: a GET for an existing file under the static root whose extension is
\* not served is answered 404 with content type application/json and a JSON
\* body with an `error` field, and no file is opened.
C7_UnservedExtension ==
    (Done /\ IsStaticRequest /\ UnservedFile) =>
        /\ AnsweredOnce
        /\ out.responses[1].status = 404
        /\ IsJsonResponse(out.responses[1])
        /\ HasErrorField(out.responses[1])
        /\ out.opened = <<>>

C7_Witness ==
    /\ Done /\ IsStaticRequest /\ UnservedFile
    /\ req.path = <<"/", "n", "o", "t", "e", "s", ".", "t", "x", "t">>
    /\ out.responses[1].status = 404
    /\ out.responses[1].body =
          <<"{", QUOTE, "error", QUOTE, ":", " ", QUOTE, "Invalid extension ",
            ".", "t", "x", "t", QUOTE, "}">>

----------------------------------------------------------------------------
HasCors(resp) ==
    /\ HeaderOf(resp, "Access-Control-Allow-Origin") = "*"
    /\ HeaderOf(resp, "Access-Control-Allow-Methods") = "POST, GET, OPTIONS, PUT, DELETE"
    /\ HeaderOf(resp, "Access-Control-Allow-Credentials") = "true"
    /\ HeaderOf(resp, "Access-Control-Max-Age") = "86400"

\* C8 as stated: every response of content type application/json, the 404 of
\* handle_error included, carries the four CORS headers.
C8_Original ==
    Done => \A i \in 1..Len(out.responses) :
                IsJsonResponse(out.responses[i]) => HasCors(out.responses[i])

\* C8 amended: every application/json response of the search and add
\* endpoints (search results, search errors, add success, add error) carries
\* the four CORS headers; the 404 of handle_error carries none of them.
C8_CorsOnJsonEndpoints ==
    /\ (Done /\ (IsSearch \/ IsAdd)) =>
          \A i \in 1..Len(out.responses) :
              IsJsonResponse(out.responses[i]) => HasCors(out.responses[i])
    /\ (Done /\ IsStaticRequest) =>
          \A i \in 1..Len(out.responses) :
              out.responses[i].status = 404 =>
                  HeaderOf(out.responses[i], "Access-Control-Allow-Origin") = ""

\* a search error answered as JSON with the CORS headers
C8_Witness ==
    /\ Done /\ IsSearch /\ ToolRan
    /\ proc.returncode # 0
    /\ Len(out.responses) = 1
    /\ IsJsonResponse(out.responses[1])
    /\ HasErrorField(out.responses[1])
    /\ HasCors(out.responses[1])

----------------------------------------------------------------------------
IsOptionsAdd == req.method = "OPTIONS" /\ startswith(req.path, ADD)

\* C9: OPTIONS /add is answered with status 200 and the five CORS headers,
\* without reading the request body and without running the tool.
C9_OptionsPreflight ==
    (Done /\ IsOptionsAdd) =>
        /\ AnsweredOnce
        /\ out.responses[1].status = 200
        /\ HasCors(out.responses[1])
        /\ HeaderOf(out.responses[1], "Access-Control-Allow-Headers")
              = "Content-Type, Authorization, X-Requested-With"
        /\ ~out.read
        /\ out.calls = <<>>

\* a preflight that announces a body
C9_Witness ==
    /\ Done /\ IsOptionsAdd
    /\ req.headers.content_length.t = "str"
    /\ req.body # <<>>
    /\ out.responses[1].status = 200
    /\ ~out.read

----------------------------------------------------------------------------
UrlOf(record) == pairs_get(record.v, URL, PyNone).v

\* one url per line: a newline between two urls, none after the last
RECURSIVE UrlLines(_)
UrlLines(records) ==
    IF records = <<>> THEN <<>>
    ELSE UrlOf(records[1])
         \o (IF Len(records) > 1 THEN <<NEWLINE>> \o UrlLines(Tail(records)) ELSE <<>>)

TextRequested(parts) == WellFormed(parts) /\ Requested(parts, FORMAT, HTML) = TEXT

\* C10: a search in `text` format whose tool prints a record sequence is
\* answered text/plain with the records' urls, in the tool's order, joined by
\* single newlines and no trailing newline.
C10_TextOutput ==
    (Done /\ IsSearch /\ proc.returncode = 0 /\ proc.stdout \notin BrokenOutputs
     /\ TextRequested(QueryParts(req.path))) =>
        /\ AnsweredOnce
        /\ out.responses[1].status = 200
        /\ HeaderOf(out.responses[1], "Content-type") = "text/plain"
        /\ out.responses[1].wrote
        /\ out.responses[1].body = UrlLines(proc.records)

\* two records: their urls on two lines
C10_Witness ==
    /\ Done /\ IsSearch
    /\ req.path = SEARCH \o <<"?", "q", "=", "a", "&", "f", "o", "r", "m", "a", "t", "=", "t", "e", "x", "t">>
    /\ proc.returncode = 0
    /\ Len(proc.records) = 2
    /\ Len(out.responses) = 1
    /\ out.responses[1].body = <<"h", "t", "t", "p", ":", "/", "/", "a">> \o <<NEWLINE>> \o <<"h", "t", "t", "p", ":", "/", "/", "b">>

----------------------------------------------------------------------------
JsonRequested(parts) == WellFormed(parts) /\ Requested(parts, FORMAT, HTML) = JSON

\* C11: a search in `json` format whose tool prints a record sequence is
\* answered application/json with a body that parses back to that sequence:
\* the same records in the same order, each with the same fields in the same
\* order and the same values, whatever layout the tool printed them in.
C11_JsonReserialized ==
    (Done /\ IsSearch /\ proc.returncode = 0 /\ proc.stdout \notin BrokenOutputs
     /\ JsonRequested(QueryParts(req.path))) =>
        /\ AnsweredOnce
        /\ out.responses[1].status = 200
        /\ HeaderOf(out.responses[1], "Content-type") = "application/json"
        /\ json_loads(out.responses[1].body)
             = [raised |-> "none", value |-> PyList(proc.records)]

\* two records, one with a quote and a backslash in a field, printed compactly
\* by the tool and written with json.dumps' separators by the gateway
C11_Witness ==
    /\ Done /\ IsSearch
    /\ req.path = SEARCH \o <<"?", "q", "=", "a", "&", "f", "o", "r", "m", "a", "t", "=", "j", "s", "o", "n">>
    /\ proc.returncode = 0
    /\ Len(proc.records) = 2
    /\ \E i \in 1..2 : contains(pairs_get(proc.records[i].v, CATEGORY, PyStr(EMPTY)).v, QUOTE)
    /\ Last(proc.stdout) = NEWLINE
    /\ Len(out.responses) = 1
    /\ out.responses[1].body # proc.stdout
    /\ out.responses[1].body = json_dumps(PyList(proc.records))

----------------------------------------------------------------------------
OtherVariant(v) == CHOOSE w \in Variants : w # v

RenderedFormats == {JSON, TEXT, HTML}

TitleOf(record) == pairs_get(record.v, TITLE, PyNone).v

\* one list item per record, title as the href and url as the link text,
\* inside one <ul>
RECURSIVE Anchors(_)
Anchors(records) ==
    IF records = <<>> THEN <<>>
    ELSE <<"<li><a href=\"">> \o TitleOf(records[1]) \o <<"\">">> \o UrlOf(records[1])
         \o <<"</a></li>">> \o Anchors(Tail(records))

AnchorList(records) == <<"<ul>">> \o Anchors(records) \o <<"</ul>">>

\* what the other server file's output_result writes for the same records and
\* the same format
OtherRendering(fmt) == output_result(OtherVariant(variant), PyList(proc.records), fmt).responses

\* one response each, with the same status, content type and body
SameRendering(mine, other) ==
    /\ Len(mine) = 1 /\ Len(other) = 1
    /\ mine[1].status = other[1].status
    /\ HeaderOf(mine[1], "Content-type") = HeaderOf(other[1], "Content-type")
    /\ mine[1].body = other[1].body

C12_OriginalFor(parts) ==
    (WellFormed(parts) /\ Requested(parts, FORMAT, HTML) \in RenderedFormats) =>
        SameRendering(out.responses, OtherRendering(Requested(parts, FORMAT, HTML)))

SameUpToTemplate(fmt, mine, other, list) ==
    /\ Len(mine) = 1 /\ Len(other) = 1
    /\ mine[1].status = other[1].status
    /\ HeaderOf(mine[1], "Content-type") = HeaderOf(other[1], "Content-type")
    /\ IF fmt = HTML
       THEN /\ mine[1].body = PAGE_TEMPLATE_format(variant, list)
            /\ other[1].body = PAGE_TEMPLATE_format(OtherVariant(variant), list)
            /\ mine[1].body # other[1].body
       ELSE mine[1].body = other[1].body

C12_AmendedFor(parts) ==
    (WellFormed(parts) /\ Requested(parts, FORMAT, HTML) \in RenderedFormats) =>
        SameUpToTemplate(Requested(parts, FORMAT, HTML), out.responses,
                         OtherRendering(Requested(parts, FORMAT, HTML)),
                         AnchorList(proc.records))

----------------------------------------------------------------------------
\* the result-set methods have returned this id at some earlier call
Issued(identifier) == \E p \in issued : p[1] = identifier

\* a meta for `identifier`: its id, and the url and title of a record that
\* was returned under that id
MetaOf(meta, identifier) ==
    /\ meta.id = identifier
    /\ \E p \in issued :
          /\ p[1] = identifier
          /\ meta.name = pairs_get(p[2].v, URL, PyNone)
          /\ meta.description = pairs_get(p[2].v, TITLE, PyNone)

MatchingMetas(identifiers, r) ==
    /\ r.raised = "none"
    /\ Len(r.returned) = Len(identifiers)
    /\ \A i \in 1..Len(identifiers) : MetaOf(r.returned[i], identifiers[i])

\* C13: GetResultMetas called with result IDs that earlier GetInitialResultSet
\* or GetSubsearchResultSet calls returned yields one dictionary per ID, in
\* the same order, with that ID and that result's url and title, also when
\* the call that returned an ID is no longer the most recent search.
C13_MetasForIssuedIds ==
    (call.method = "GetResultMetas"
     /\ \A i \in 1..Len(call.identifiers) : Issued(call.identifiers[i])) =>
        MatchingMetas(call.identifiers, reply)

----------------------------------------------------------------------------
IsSearchCall == call.method \in {"GetInitialResultSet", "GetSubsearchResultSet"}

\* search ran `<cmd> suggest <terms joined by spaces>` and nothing else
InvokedSuggest(configured, terms, r) ==
    r.invoked = << <<configured.v, SUGGEST, join(<<" ">>, terms)>> >>

\* search ran nothing and the method returned no result
NothingInvoked(r) == r.invoked = <<>> /\ r.raised = "none" /\ r.returned = <<>>

\* C14: the constructor keeps the configured command exactly when `which`
\* exits 0 and sets cmd to None exactly when it does not; a search then runs
\* `<cmd> suggest <terms joined by spaces>` when the command was found, and
\* runs nothing and returns no result when it was not.
C14_ExecutableCheck ==
    /\ (which_status = 0) <=> (cmd = configured_cmd(environ.BOOKMARKS_CMD))
    /\ (which_status # 0) <=> (cmd = PyNone)
    /\ IsSearchCall =>
          IF which_status = 0
          THEN InvokedSuggest(configured_cmd(environ.BOOKMARKS_CMD), call.terms, reply)
          ELSE NothingInvoked(reply)

=============================================================================
